---------------------------- MODULE Spec2Model ----------------------------
(***************************************************************************)
(* Model of langchain_benchmarks/tool_usage/evaluators.py: the agent       *)
(* trajectory evaluator (AgentTrajectoryEvaluator, compare_outputs) and    *)
(* the LLM judge QAMathEvaluator, driven by an external evaluation driver  *)
(* that may run several evaluations at once (scripts/                      *)
(* multiverse_math_benchmark.py, evaluate(..., max_concurrency=5)).        *)
(*                                                                         *)
(* Python values are modelled as follows.                                  *)
(*  - a dict with optional keys is a record whose fields are options:      *)
(*    <<>> when the key is absent, <<v>> when it is present with value v;  *)
(*  - a text whose characters matter (the judge model's reply) is a        *)
(*    sequence of one-character strings;                                   *)
(*  - a float obtained by dividing two ints is the reduced fraction        *)
(*    [num, den] (true division of small ints is injective on reduced      *)
(*    fractions);                                                          *)
(*  - an exception is a record [type, msg, arg].                           *)
(***************************************************************************)
EXTENDS Integers, Sequences, FiniteSets, TLC

(***************************************************************************)
(* Bounds of the model.                                                    *)
(***************************************************************************)
\* Longest tool trajectory (actual or expected) that is enumerated.
MaxSteps == 3
\* Number of evaluation calls the driver may have in flight at once.
MaxCalls == 2

Calls == 1 .. MaxCalls

(***************************************************************************)
(* Options and dicts.                                                      *)
(***************************************************************************)
Absent == << >>

Some(v) == << v >>

\* "key in d" for the option stored under a key
Has(opt) == opt # Absent

\* d[key] for a key that is present
Get(opt) == opt[1]

(***************************************************************************)
(* Tool identifiers are Python strings; sorted() orders them               *)
(* lexicographically, which on these one-letter names is the order below.  *)
(***************************************************************************)
Tools == {"a", "b"}

ToolRank(t) == IF t = "a" THEN 1 ELSE IF t = "b" THEN 2 ELSE 3

StrLeq(s, t) == ToolRank(s) <= ToolRank(t)

\* All sequences over S of length at most n
SeqsUpTo(S, n) == UNION {[1 .. k -> S] : k \in 0 .. n}

(***************************************************************************)
(* Exceptions.                                                             *)
(***************************************************************************)
NoError == [type |-> "None", msg |-> "", arg |-> ""]

\* evaluators.py:88 and :216 (the spec's InvalidRunOutput)
InvalidRunOutput ==
    [type |-> "ValueError",
     msg |-> "Please make sure that your agent outputs 'intermediate_steps or 'actual_steps'",
     arg |-> ""]

\* evaluators.py:222 (the spec's MissingExpectedSteps)
MissingExpectedSteps ==
    [type |-> "ValueError",
     msg |-> "Please make sure that your dataset contains 'expected_steps'",
     arg |-> ""]

RunOutputsNone ==
    [type |-> "ValueError", msg |-> "Run outputs cannot be None", arg |-> ""]

ExampleNone ==
    [type |-> "ValueError", msg |-> "Example cannot be None", arg |-> ""]

\* evaluators.py:170 (the spec's ConflictingJudgeConfig)
ConflictingJudgeConfig ==
    [type |-> "ValueError",
     msg |-> "If output_evaluation is 'none', then eval_llm must be None",
     arg |-> ""]

\* evaluators.py:193 (the spec's UnsupportedJudgeMode); the message ends with
\* the rejected mode
UnsupportedJudgeMode(mode) ==
    [type |-> "ValueError",
     msg |-> "output_evaluation must be one of 'qa' or 'none', got ",
     arg |-> mode]

\* d[key] on a dict without that key
KeyError(key) == [type |-> "KeyError", msg |-> key, arg |-> ""]

\* int / int with a zero divisor
ZeroDivisionError ==
    [type |-> "ZeroDivisionError", msg |-> "division by zero", arg |-> ""]


(***************************************************************************)
(* QAMathEvaluator (evaluators.py:33-67).                                  *)
(***************************************************************************)
\* The literal "CORRECT" of line 64
CORRECT == <<"C", "O", "R", "R", "E", "C", "T">>

\* A variant of startswith that looks for the prefix anywhere in the text
\* (Python's "prefix in s")
ContainsText(s, prefix) ==
    \E k \in 0 .. Len(s) :
        /\ k + Len(prefix) <= Len(s)
        /\ \A i \in 1 .. Len(prefix) : s[k + i] = prefix[i]

\* str.startswith(prefix): the text is at least as long as the prefix and
\* agrees with it character by character
StartsWith(s, prefix) ==
    /\ Len(s) >= Len(prefix)
    /\ \A i \in 1 .. Len(prefix) : s[i] = prefix[i]

\* QAMathEvaluator._evaluate_strings, lines 61-67: content is the text
\* (result.content) the chain returned for {"answer", "result"}
QAMathScore(content) == IF StartsWith(content, CORRECT) THEN 1 ELSE 0

(***************************************************************************)
(* compare_outputs, the pure parts (evaluators.py:70-156).                 *)
(***************************************************************************)
\* line 84: [action.tool for action, _ in intermediate_steps]
ActionTools(intermediate_steps) ==
    [i \in 1 .. Len(intermediate_steps) |-> intermediate_steps[i][1].tool]

\* A variant of the extraction that reads a missing "actual_steps" as []
ExtractStepsLenient(run_outputs) ==
    IF Has(run_outputs.intermediate_steps)
    THEN [raised |-> NoError,
          steps |-> ActionTools(Get(run_outputs.intermediate_steps))]
    ELSE IF Has(run_outputs.actual_steps)
    THEN [raised |-> NoError, steps |-> Get(run_outputs.actual_steps)]
    ELSE [raised |-> NoError, steps |-> << >>]

\* lines 78-91: the actual tool sequence, or the ValueError
ExtractSteps(run_outputs) ==
    IF Has(run_outputs.intermediate_steps)
    THEN [raised |-> NoError,
          steps |-> ActionTools(Get(run_outputs.intermediate_steps))]
    ELSE IF Has(run_outputs.actual_steps)
    THEN [raised |-> NoError, steps |-> Get(run_outputs.actual_steps)]
    ELSE [raised |-> InvalidRunOutput, steps |-> << >>]

\* line 95: example_outputs.get("order_matters", True)
OrderMatters(example_outputs) ==
    IF Has(example_outputs.order_matters)
    THEN Get(example_outputs.order_matters)
    ELSE TRUE

\* sorted(): insertion of x into a sorted list, after the elements <= x
RECURSIVE InsertSorted(_, _)
InsertSorted(x, s) ==
    IF s = << >> THEN << x >>
    ELSE IF StrLeq(Head(s), x) THEN << Head(s) >> \o InsertSorted(x, Tail(s))
    ELSE << x >> \o s

RECURSIVE Sorted(_)
Sorted(s) == IF s = << >> THEN << >> ELSE InsertSorted(Head(s), Sorted(Tail(s)))

\* int(bool)
BoolToInt(b) == IF b THEN 1 ELSE 0

\* A variant of the trajectory score that sorts whatever order_matters says
TrajectoryScoreSorted(actual_steps, expected_steps, order_matters) ==
    BoolToInt(Sorted(actual_steps) = Sorted(expected_steps))

\* lines 97-104
TrajectoryScore(actual_steps, expected_steps, order_matters) ==
    IF order_matters
    THEN BoolToInt(actual_steps = expected_steps)
    ELSE BoolToInt(Sorted(actual_steps) = Sorted(expected_steps))

RECURSIVE Gcd(_, _)
Gcd(x, y) == IF y = 0 THEN x ELSE Gcd(y, x % y)

\* The float n / m for m > 0, as a reduced fraction
Fraction(n, m) ==
    LET g == Gcd(n, m) IN [num |-> n \div g, den |-> m \div g]

\* A variant of the step ratio clamped to at most 1
StepFractionClamped(n_actual, n_expected) ==
    IF n_actual > n_expected THEN Fraction(1, 1)
    ELSE Fraction(n_actual, n_expected)

\* line 107: len(actual_steps) / len(expected_steps), for a non-zero divisor
StepFraction(n_actual, n_expected) == Fraction(n_actual, n_expected)

\* EvaluationResult(key=..., score=..., comment=..., source_run_id=...)
EvaluationResult(key, score, comment, source_run_id) ==
    [key |-> key, score |-> score, comment |-> comment,
     source_run_id |-> source_run_id]

\* line 114: f"Order matters={order_matters}"
OrderComment(order_matters) ==
    IF order_matters THEN "Order matters=True" ELSE "Order matters=False"

\* lines 110-120
TrajectoryResults(trajectory_score, step_fraction, order_matters) ==
    << EvaluationResult("Intermediate steps correctness", trajectory_score,
                        OrderComment(order_matters), "None"),
       EvaluationResult("# steps / # expected steps", step_fraction,
                        "None", "None") >>

\* A variant of the state condition that needs only one of the two states
HasStatesEither(run_outputs, example_outputs) ==
    Has(run_outputs.state) \/ Has(example_outputs.state)

\* line 124: "state" in run_outputs and "state" in example_outputs
HasStates(run_outputs, example_outputs) ==
    Has(run_outputs.state) /\ Has(example_outputs.state)

\* lines 125-132
StateResult(run_outputs, example_outputs) ==
    EvaluationResult("Correct Final State",
                     BoolToInt(run_outputs.state = example_outputs.state),
                     "None", "None")

(***************************************************************************)
(* The judge held by an evaluator.                                         *)
(***************************************************************************)
\* qa_evaluator = None
NoJudge == [kind |-> "None", llm |-> "None"]

\* line 134: "output" in run_outputs and qa_evaluator (an evaluator object is
\* truthy, None is not)
WantsJudge(run_outputs, qa_evaluator) ==
    Has(run_outputs.output) /\ qa_evaluator # NoJudge

\* The id of the judge's traced run (cb.traced_runs[0].id)
JudgeRunId == "judge_run"

\* lines 135-147: the outcome of the call of qa_evaluator.evaluate_strings.
\* The arguments are evaluated left to right: example_outputs["reference"]
\* before run_inputs["question"].  reply is the text the judge's chat model
\* returns, verdict the score the external QA grader reports.
JudgeOutcome(run_outputs, example_outputs, run_inputs, qa_evaluator, stub) ==
    IF ~ Has(example_outputs.reference)
    THEN [raised |-> KeyError("reference"), calls |-> << >>, score |-> 0]
    ELSE IF qa_evaluator.kind = "QAMathEvaluator"
    THEN [raised |-> NoError,
          calls |-> << [judge |-> qa_evaluator,
                        prediction |-> Get(run_outputs.output),
                        reference |-> Get(example_outputs.reference),
                        input |-> Absent] >>,
          score |-> QAMathScore(stub.reply)]
    ELSE IF ~ Has(run_inputs.question)
    THEN [raised |-> KeyError("question"), calls |-> << >>, score |-> 0]
    ELSE [raised |-> NoError,
          calls |-> << [judge |-> qa_evaluator,
                        prediction |-> Get(run_outputs.output),
                        reference |-> Get(example_outputs.reference),
                        input |-> run_inputs.question] >>,
          score |-> stub.verdict]

\* lines 148-154
JudgeResult(score) ==
    EvaluationResult("correctness", score, "None", JudgeRunId)

(***************************************************************************)
(* AgentTrajectoryEvaluator.__init__ (evaluators.py:162-199).              *)
(***************************************************************************)
\* The model built at lines 175-181 when no eval_llm is given
DefaultLlm == "ChatOpenAI(gpt-4)"

NotConstructed ==
    [status |-> "new", error |-> NoError, qa_evaluator |-> NoJudge,
     output_evaluation |-> ""]

ConstructionRaised(err) ==
    [status |-> "raised", error |-> err, qa_evaluator |-> NoJudge,
     output_evaluation |-> ""]

Constructed(qa_evaluator, mode) ==
    [status |-> "constructed", error |-> NoError,
     qa_evaluator |-> qa_evaluator, output_evaluation |-> mode]

\* A variant of the constructor without the check of line 169
NewEvaluatorUnchecked(llm, mode) ==
    IF mode = "none" THEN Constructed(NoJudge, mode)
    ELSE LET used == IF llm # "None" THEN llm ELSE DefaultLlm
         IN  IF mode = "qa"
             THEN Constructed([kind |-> "QAEvalChain", llm |-> used], mode)
             ELSE IF mode = "qa_math"
             THEN Constructed([kind |-> "QAEvalChain(multiverse_math)",
                               llm |-> used], mode)
             ELSE IF mode = "qa_math_without_question"
             THEN Constructed([kind |-> "QAMathEvaluator", llm |-> used], mode)
             ELSE ConstructionRaised(UnsupportedJudgeMode(mode))

\* lines 168-199
NewEvaluator(llm, mode) ==
    IF mode = "none"
    THEN IF llm # "None"
         THEN ConstructionRaised(ConflictingJudgeConfig)
         ELSE Constructed(NoJudge, mode)
    ELSE LET used == IF llm # "None" THEN llm ELSE DefaultLlm
         IN  IF mode = "qa"
             THEN Constructed([kind |-> "QAEvalChain", llm |-> used], mode)
             ELSE IF mode = "qa_math"
             THEN Constructed([kind |-> "QAEvalChain(multiverse_math)",
                               llm |-> used], mode)
             ELSE IF mode = "qa_math_without_question"
             THEN Constructed([kind |-> "QAMathEvaluator", llm |-> used], mode)
             ELSE ConstructionRaised(UnsupportedJudgeMode(mode))

(***************************************************************************)
(* AgentTrajectoryEvaluator.evaluate_run, the checks (evaluators.py:       *)
(* 205-224): the error raised, or NoError when compare_outputs is called.  *)
(***************************************************************************)
\* A variant of the checks without the one of lines 221-224
EvaluateRunChecksWithoutExpected(r, e) ==
    IF r.outputs_none THEN RunOutputsNone
    ELSE IF e.is_none THEN ExampleNone
    ELSE IF /\ ~ Has(r.outputs.intermediate_steps)
            /\ ~ Has(r.outputs.actual_steps)
    THEN InvalidRunOutput
    ELSE NoError

EvaluateRunChecks(r, e) ==
    IF r.outputs_none THEN RunOutputsNone
    ELSE IF e.is_none THEN ExampleNone
    ELSE IF /\ ~ Has(r.outputs.intermediate_steps)
            /\ ~ Has(r.outputs.actual_steps)
    THEN InvalidRunOutput
    ELSE IF ~ Has(e.outputs.expected_steps) THEN MissingExpectedSteps
    ELSE NoError

(***************************************************************************)
(* State.  The driver holds one evaluator and runs the calls of Calls on   *)
(* it; every per-call variable is a function of the call.                  *)
(***************************************************************************)
VARIABLES
    ctor_args,         \* the arguments given to AgentTrajectoryEvaluator(...)
    evaluator,         \* the evaluator object: its fields, or that __init__ raised
    entry,             \* per call: "evaluate_run", "compare_outputs" or "idle"
    run,               \* per call: the Run (outputs, or None, and inputs)
    example,           \* per call: the Example (None, or its outputs)
    stub,              \* per call: what the external judge answers when asked
    pc,                \* per call: the statement of the call to execute next
    qa_evaluator,      \* per call: compare_outputs' keyword argument
    actual_steps,      \* per call: local of compare_outputs (option)
    expected_steps,    \* per call: local of compare_outputs (option)
    order_matters,     \* per call: local of compare_outputs (option)
    trajectory_score,  \* per call: local of compare_outputs (option)
    step_fraction,     \* per call: local of compare_outputs (option)
    results,           \* per call: the list built from line 110 on
    raised,            \* per call: the exception that ended the call
    returned,          \* per call: the value returned (option)
    judge_calls        \* per call: the invocations of the judge made so far

inputs == << ctor_args, entry, run, example, stub >>

locals == << qa_evaluator, actual_steps, expected_steps, order_matters,
             trajectory_score, step_fraction, results, raised, returned,
             judge_calls >>

vars == << inputs, evaluator, pc, locals >>

(***************************************************************************)
(* Inputs.                                                                 *)
(***************************************************************************)
RunOutputs(inter, actual, state, output) ==
    [intermediate_steps |-> inter, actual_steps |-> actual,
     state |-> state, output |-> output]

ExampleOutputs(expected, order, state, reference) ==
    [expected_steps |-> expected, order_matters |-> order,
     state |-> state, reference |-> reference]

RunInputs(question) == [question |-> question]

\* A Run with outputs and inputs, and a Run whose outputs are None
RunOf(outputs, run_inputs) ==
    [outputs_none |-> FALSE, outputs |-> outputs, inputs |-> run_inputs]

RunWithoutOutputs(run_inputs) ==
    [outputs_none |-> TRUE,
     outputs |-> RunOutputs(Absent, Absent, Absent, Absent),
     inputs |-> run_inputs]

\* An Example, and example = None
ExampleOf(outputs) == [is_none |-> FALSE, outputs |-> outputs]

NoExample ==
    [is_none |-> TRUE,
     outputs |-> ExampleOutputs(Absent, Absent, Absent, Absent)]

\* The (AgentAction, observation) pairs of an agent that called these tools
WithObservations(ts) ==
    [i \in 1 .. Len(ts) |-> << [tool |-> ts[i]], "observation" >>]

Trajectories == SeqsUpTo(Tools, MaxSteps)

\* The value of "actual_steps" in run outputs that also carry
\* "intermediate_steps"
Decoy == << "a" >>

\* The two step fields of the run outputs
StepFields ==
    {[inter |-> Absent, actual |-> Absent]}
    \cup {[inter |-> Some(WithObservations(t)), actual |-> Absent] :
            t \in Trajectories}
    \cup {[inter |-> Absent, actual |-> Some(t)] : t \in Trajectories}
    \cup {[inter |-> Some(WithObservations(t)), actual |-> Some(Decoy)] :
            t \in Trajectories}

OrderFlags == {Absent, Some(TRUE), Some(FALSE)}

Modes == {"qa", "qa_math", "none", "qa_math_without_question", "exact_match"}

Llms == {"None", "stub_llm"}

\* Replies of the judge's chat model
ReplyHeads ==
    { << >>, CORRECT, << "I", "N" >> \o CORRECT,
      << "C", "o", "r", "r", "e", "c", "t" >>,
      << " " >> \o CORRECT,
      << "C", "O", "R", "R", "E", "C" >>,
      << "I", "t", " ", "i", "s", " " >> \o CORRECT }

ReplyTails ==
    { << >>, << " ", "b", "e", "c", "a", "u", "s", "e" >>, << "." >>,
      << "\n" >> \o CORRECT }

Replies == {h \o t : h \in ReplyHeads, t \in ReplyTails}

DefaultStub == [reply |-> CORRECT, verdict |-> 1]

\* The inputs of one call
CallInput(en, r, e, st) == [entry |-> en, run |-> r, example |-> e, stub |-> st]

Entries == {"evaluate_run", "compare_outputs"}

\* Trajectories in full, the other fields in two shapes
TrajectoryInputs ==
    {CallInput(en,
               RunOf(RunOutputs(sf.inter, sf.actual, rest.state, rest.output),
                     RunInputs(rest.question)),
               ExampleOf(ExampleOutputs(Some(ex), om, rest.state,
                                        rest.reference)),
               DefaultStub) :
        en \in Entries, sf \in StepFields, ex \in Trajectories,
        om \in OrderFlags,
        rest \in {[state |-> Absent, output |-> Absent,
                   reference |-> Absent, question |-> Absent],
                  [state |-> Some("s1"), output |-> Some("42"),
                   reference |-> Some("42"),
                   question |-> Some("what is 6 * 7?")]}}

StatePairs ==
    {[r |-> Absent, e |-> Absent], [r |-> Some("s1"), e |-> Absent],
     [r |-> Absent, e |-> Some("s1")], [r |-> Some("s1"), e |-> Some("s1")],
     [r |-> Some("s1"), e |-> Some("s2")]}

\* Presence of every field, on short trajectories
FieldInputs ==
    {CallInput(en,
               RunOf(RunOutputs(Absent, ac, sp.r, out), RunInputs(q)),
               ExampleOf(ExampleOutputs(ex, Absent, sp.e, ref)),
               DefaultStub) :
        en \in Entries,
        ac \in {Absent, Some(<< "a" >>)},
        ex \in {Absent, Some(<< >>), Some(<< "a" >>)},
        sp \in StatePairs,
        out \in {Absent, Some("42")},
        ref \in {Absent, Some("42")},
        q \in {Absent, Some("what is 6 * 7?")}}

\* run.outputs is None, example is None (evaluate_run only: compare_outputs
\* takes dicts)
NoneInputs ==
    {CallInput("evaluate_run", r, e, DefaultStub) :
        r \in {RunWithoutOutputs(RunInputs(Absent)),
               RunOf(RunOutputs(Absent, Absent, Absent, Absent),
                     RunInputs(Absent)),
               RunOf(RunOutputs(Absent, Some(<< "a" >>), Absent, Absent),
                     RunInputs(Absent))},
        e \in {NoExample, ExampleOf(ExampleOutputs(Absent, Absent, Absent, Absent)),
               ExampleOf(ExampleOutputs(Some(<< "a" >>), Absent, Absent, Absent))}}

\* A complete run and example, and every answer of the judge
JudgeInputs ==
    {CallInput("evaluate_run",
               RunOf(RunOutputs(Absent, Some(<< "a" >>), Absent, Some("42")),
                     RunInputs(Some("what is 6 * 7?"))),
               ExampleOf(ExampleOutputs(Some(<< "a" >>), Absent, Absent,
                                        Some("42"))),
               [reply |-> r, verdict |-> v]) :
        r \in Replies, v \in {0, 1}}

\* The inputs of a call that is not made
IdleInput ==
    CallInput("idle", RunWithoutOutputs(RunInputs(Absent)), NoExample,
              DefaultStub)

\* The calls the driver runs at once: short, and one of each outcome
ConcurrentInputs ==
    {CallInput("evaluate_run",
               RunOf(RunOutputs(Some(WithObservations(<< "b", "a" >>)), Absent,
                                Some("s1"), Some("42")),
                     RunInputs(Some("what is 6 * 7?"))),
               ExampleOf(ExampleOutputs(Some(<< "a", "b" >>), Some(FALSE),
                                        Some("s1"), Some("42"))),
               DefaultStub),
     CallInput("evaluate_run",
               RunOf(RunOutputs(Absent, Some(<< "a" >>), Some("s1"), Absent),
                     RunInputs(Absent)),
               ExampleOf(ExampleOutputs(Some(<< "a", "b" >>), Absent,
                                        Some("s2"), Absent)),
               DefaultStub),
     CallInput("compare_outputs",
               RunOf(RunOutputs(Absent, Some(<< "a" >>), Absent, Some("41")),
                     RunInputs(Absent)),
               ExampleOf(ExampleOutputs(Some(<< >>), Absent, Absent, Absent)),
               DefaultStub),
     CallInput("compare_outputs",
               RunOf(RunOutputs(Absent, Some(<< "a", "b" >>), Some("s2"),
                                Some("42")),
                     RunInputs(Some("what is 6 * 7?"))),
               ExampleOf(ExampleOutputs(Some(<< "a", "b" >>), Some(TRUE),
                                        Some("s1"), Absent)),
               DefaultStub),
     CallInput("evaluate_run",
               RunOf(RunOutputs(Absent, Some(<< "a" >>), Absent, Some("7")),
                     RunInputs(Absent)),
               ExampleOf(ExampleOutputs(Absent, Absent, Absent, Some("42"))),
               DefaultStub),
     CallInput("evaluate_run",
               RunOf(RunOutputs(Absent, Absent, Absent, Some("42")),
                     RunInputs(Absent)),
               ExampleOf(ExampleOutputs(Some(<< "a" >>), Absent, Absent,
                                        Some("42"))),
               DefaultStub)}

CtorArgs(llm, mode) == [eval_llm |-> llm, output_evaluation |-> mode]

\* Every variable but the inputs, before anything ran
Fresh ==
    /\ evaluator = NotConstructed
    /\ pc = [c \in Calls |-> IF entry[c] = "idle" THEN "idle" ELSE "ready"]
    /\ qa_evaluator = [c \in Calls |-> NoJudge]
    /\ actual_steps = [c \in Calls |-> Absent]
    /\ expected_steps = [c \in Calls |-> Absent]
    /\ order_matters = [c \in Calls |-> Absent]
    /\ trajectory_score = [c \in Calls |-> Absent]
    /\ step_fraction = [c \in Calls |-> Absent]
    /\ results = [c \in Calls |-> << >>]
    /\ raised = [c \in Calls |-> NoError]
    /\ returned = [c \in Calls |-> Absent]
    /\ judge_calls = [c \in Calls |-> << >>]

\* Call 1 gets the input i, the other calls are not made
OneCall(i) ==
    /\ entry = [c \in Calls |-> IF c = 1 THEN i.entry ELSE "idle"]
    /\ run = [c \in Calls |-> IF c = 1 THEN i.run ELSE IdleInput.run]
    /\ example = [c \in Calls |-> IF c = 1 THEN i.example ELSE IdleInput.example]
    /\ stub = [c \in Calls |-> IF c = 1 THEN i.stub ELSE IdleInput.stub]

\* One evaluation at a time
Init ==
    /\ \/ /\ ctor_args \in {CtorArgs("None", "none"),
                            CtorArgs("stub_llm", "qa_math_without_question")}
          /\ \E i \in TrajectoryInputs : OneCall(i)
       \/ /\ ctor_args \in {CtorArgs(l, m) : l \in Llms, m \in Modes}
          /\ \E i \in FieldInputs \cup NoneInputs : OneCall(i)
       \/ /\ ctor_args \in {CtorArgs("stub_llm", "qa_math_without_question"),
                            CtorArgs("None", "qa")}
          /\ \E i \in JudgeInputs : OneCall(i)
    /\ Fresh

\* The driver runs every call of Calls on one evaluator
InitConcurrent ==
    /\ ctor_args \in {CtorArgs("stub_llm", "qa_math_without_question"),
                      CtorArgs("None", "none")}
    /\ \E f \in [Calls -> ConcurrentInputs] :
          /\ entry = [c \in Calls |-> f[c].entry]
          /\ run = [c \in Calls |-> f[c].run]
          /\ example = [c \in Calls |-> f[c].example]
          /\ stub = [c \in Calls |-> f[c].stub]
    /\ Fresh

(***************************************************************************)
(* Writes of a call to its own frame.                                      *)
(***************************************************************************)
\* An exception leaves the call: nothing is returned
Raise(c, err) ==
    /\ pc' = [pc EXCEPT ![c] = "raised"]
    /\ raised' = [raised EXCEPT ![c] = err]

Goto(c, label) == pc' = [pc EXCEPT ![c] = label]

\* A variant in which results is one list shared by the calls in flight
BindResultsShared(res, c, lst) == [d \in DOMAIN res |-> lst]

\* line 110: results = [...] binds a new list in the frame of call c
BindResults(res, c, lst) == [res EXCEPT ![c] = lst]

\* A variant in which the result is appended to the list of every call
AppendResultShared(res, c, r) == [d \in DOMAIN res |-> Append(res[d], r)]

\* lines 127 and 148: results.append(...) on the list of call c
AppendResult(res, c, r) == [res EXCEPT ![c] = Append(@, r)]

(***************************************************************************)
(* Actions.                                                                *)
(***************************************************************************)
\* AgentTrajectoryEvaluator(eval_llm=..., output_evaluation=...), directly
\* or through get_eval_config (lines 254-260)
Construct ==
    /\ evaluator.status = "new"
    /\ evaluator' = NewEvaluator(ctor_args.eval_llm, ctor_args.output_evaluation)
    /\ UNCHANGED << inputs, pc, locals >>

\* evaluate_run (lines 201-231) up to the call of compare_outputs; it needs
\* an evaluator object
EvaluateRun(c) ==
    /\ pc[c] = "ready"
    /\ entry[c] = "evaluate_run"
    /\ evaluator.status = "constructed"
    /\ LET err == EvaluateRunChecks(run[c], example[c])
       IN  IF err # NoError
           THEN /\ Raise(c, err)
                /\ UNCHANGED qa_evaluator
           ELSE /\ Goto(c, "extract")
                /\ qa_evaluator' =
                       [qa_evaluator EXCEPT ![c] = evaluator.qa_evaluator]
                /\ UNCHANGED raised
    /\ UNCHANGED << inputs, evaluator, actual_steps, expected_steps,
                    order_matters, trajectory_score, step_fraction, results,
                    returned, judge_calls >>

\* compare_outputs called by another caller than evaluate_run, with the
\* judge of the evaluator when there is one and the default None otherwise
CallCompareOutputs(c) ==
    /\ pc[c] = "ready"
    /\ entry[c] = "compare_outputs"
    /\ evaluator.status # "new"
    /\ Goto(c, "extract")
    /\ qa_evaluator' = [qa_evaluator EXCEPT ![c] = evaluator.qa_evaluator]
    /\ UNCHANGED << inputs, evaluator, actual_steps, expected_steps,
                    order_matters, trajectory_score, step_fraction, results,
                    raised, returned, judge_calls >>

\* lines 78-91
Extract(c) ==
    /\ pc[c] = "extract"
    /\ LET x == ExtractSteps(run[c].outputs)
       IN  IF x.raised # NoError
           THEN /\ Raise(c, x.raised)
                /\ UNCHANGED actual_steps
           ELSE /\ Goto(c, "expected")
                /\ actual_steps' = [actual_steps EXCEPT ![c] = Some(x.steps)]
                /\ UNCHANGED raised
    /\ UNCHANGED << inputs, evaluator, qa_evaluator, expected_steps,
                    order_matters, trajectory_score, step_fraction, results,
                    returned, judge_calls >>

\* lines 93-95
Expected(c) ==
    /\ pc[c] = "expected"
    /\ IF ~ Has(example[c].outputs.expected_steps)
       THEN /\ Raise(c, KeyError("expected_steps"))
            /\ UNCHANGED << expected_steps, order_matters >>
       ELSE /\ Goto(c, "trajectory")
            /\ expected_steps' =
                   [expected_steps EXCEPT
                      ![c] = Some(Get(example[c].outputs.expected_steps))]
            /\ order_matters' =
                   [order_matters EXCEPT
                      ![c] = Some(OrderMatters(example[c].outputs))]
            /\ UNCHANGED raised
    /\ UNCHANGED << inputs, evaluator, qa_evaluator, actual_steps,
                    trajectory_score, step_fraction, results, returned,
                    judge_calls >>

\* lines 97-104
Trajectory(c) ==
    /\ pc[c] = "trajectory"
    /\ Goto(c, "fraction")
    /\ trajectory_score' =
           [trajectory_score EXCEPT
              ![c] = Some(TrajectoryScore(Get(actual_steps[c]),
                                          Get(expected_steps[c]),
                                          Get(order_matters[c])))]
    /\ UNCHANGED << inputs, evaluator, qa_evaluator, actual_steps,
                    expected_steps, order_matters, step_fraction, results,
                    raised, returned, judge_calls >>

\* line 107
StepRatio(c) ==
    /\ pc[c] = "fraction"
    /\ IF Len(Get(expected_steps[c])) = 0
       THEN /\ Raise(c, ZeroDivisionError)
            /\ UNCHANGED step_fraction
       ELSE /\ Goto(c, "results")
            /\ step_fraction' =
                   [step_fraction EXCEPT
                      ![c] = Some(StepFraction(Len(Get(actual_steps[c])),
                                               Len(Get(expected_steps[c]))))]
            /\ UNCHANGED raised
    /\ UNCHANGED << inputs, evaluator, qa_evaluator, actual_steps,
                    expected_steps, order_matters, trajectory_score, results,
                    returned, judge_calls >>

\* lines 110-120
Results(c) ==
    /\ pc[c] = "results"
    /\ Goto(c, "state")
    /\ results' =
           BindResults(results, c,
                       TrajectoryResults(Get(trajectory_score[c]),
                                         Get(step_fraction[c]),
                                         Get(order_matters[c])))
    /\ UNCHANGED << inputs, evaluator, qa_evaluator, actual_steps,
                    expected_steps, order_matters, trajectory_score,
                    step_fraction, raised, returned, judge_calls >>

\* lines 124-132
State(c) ==
    /\ pc[c] = "state"
    /\ Goto(c, "judge")
    /\ IF HasStates(run[c].outputs, example[c].outputs)
       THEN results' =
                AppendResult(results, c,
                             StateResult(run[c].outputs, example[c].outputs))
       ELSE UNCHANGED results
    /\ UNCHANGED << inputs, evaluator, qa_evaluator, actual_steps,
                    expected_steps, order_matters, trajectory_score,
                    step_fraction, raised, returned, judge_calls >>

\* lines 134-154
Judge(c) ==
    /\ pc[c] = "judge"
    /\ IF WantsJudge(run[c].outputs, qa_evaluator[c])
       THEN LET j == JudgeOutcome(run[c].outputs, example[c].outputs,
                                  run[c].inputs, qa_evaluator[c], stub[c])
            IN  IF j.raised # NoError
                THEN /\ Raise(c, j.raised)
                     /\ UNCHANGED << results, judge_calls >>
                ELSE /\ Goto(c, "return")
                     /\ judge_calls' =
                            [judge_calls EXCEPT ![c] = @ \o j.calls]
                     /\ results' = AppendResult(results, c, JudgeResult(j.score))
                     /\ UNCHANGED raised
       ELSE /\ Goto(c, "return")
            /\ UNCHANGED << results, judge_calls, raised >>
    /\ UNCHANGED << inputs, evaluator, qa_evaluator, actual_steps,
                    expected_steps, order_matters, trajectory_score,
                    step_fraction, returned >>

\* line 156
Return(c) ==
    /\ pc[c] = "return"
    /\ Goto(c, "done")
    /\ returned' = [returned EXCEPT ![c] = Some([results |-> results[c]])]
    /\ UNCHANGED << inputs, evaluator, qa_evaluator, actual_steps,
                    expected_steps, order_matters, trajectory_score,
                    step_fraction, results, raised, judge_calls >>

Next ==
    \/ Construct
    \/ \E c \in Calls : EvaluateRun(c)
    \/ \E c \in Calls : CallCompareOutputs(c)
    \/ \E c \in Calls : Extract(c)
    \/ \E c \in Calls : Expected(c)
    \/ \E c \in Calls : Trajectory(c)
    \/ \E c \in Calls : StepRatio(c)
    \/ \E c \in Calls : Results(c)
    \/ \E c \in Calls : State(c)
    \/ \E c \in Calls : Judge(c)
    \/ \E c \in Calls : Return(c)

Spec == Init /\ [][Next]_vars

SpecConcurrent == InitConcurrent /\ [][Next]_vars

(***************************************************************************)
(* One evaluation as a whole: what a call returns or raises when nothing   *)
(* else runs.                                                              *)
(***************************************************************************)
Failed(err) == [raised |-> err, returned |-> Absent, judge_calls |-> << >>]

\* compare_outputs, lines 78-156, from its arguments to its outcome
CompareOutputs(run_outputs, example_outputs, run_inputs, qa, st) ==
    LET x == ExtractSteps(run_outputs)
    IN  IF x.raised # NoError THEN Failed(x.raised)
        ELSE IF ~ Has(example_outputs.expected_steps)
        THEN Failed(KeyError("expected_steps"))
        ELSE
          LET e  == Get(example_outputs.expected_steps)
              om == OrderMatters(example_outputs)
              ts == TrajectoryScore(x.steps, e, om)
          IN  IF Len(e) = 0 THEN Failed(ZeroDivisionError)
              ELSE
                LET base == TrajectoryResults(
                                ts, StepFraction(Len(x.steps), Len(e)), om)
                    with_state ==
                        IF HasStates(run_outputs, example_outputs)
                        THEN Append(base, StateResult(run_outputs,
                                                      example_outputs))
                        ELSE base
                IN  IF WantsJudge(run_outputs, qa)
                    THEN LET j == JudgeOutcome(run_outputs, example_outputs,
                                               run_inputs, qa, st)
                         IN  IF j.raised # NoError THEN Failed(j.raised)
                             ELSE [raised |-> NoError,
                                   returned |->
                                     Some([results |->
                                        Append(with_state,
                                               JudgeResult(j.score))]),
                                   judge_calls |-> j.calls]
                    ELSE [raised |-> NoError,
                          returned |-> Some([results |-> with_state]),
                          judge_calls |-> << >>]

\* evaluate_run, lines 201-231, on the evaluator ev
EvaluateRunResult(ev, r, e, st) ==
    LET err == EvaluateRunChecks(r, e)
    IN  IF err # NoError THEN Failed(err)
        ELSE CompareOutputs(r.outputs, e.outputs, r.inputs,
                            ev.qa_evaluator, st)

(***************************************************************************)
(* Vocabulary of the properties.                                           *)
(***************************************************************************)
Done(c) == pc[c] = "done"

Failing(c) == pc[c] = "raised"

Finished(c) == Done(c) \/ Failing(c)

\* The run and the example are there and hold dicts
HasDicts(c) == ~ run[c].outputs_none /\ ~ example[c].is_none

HasStepField(c) ==
    \/ Has(run[c].outputs.intermediate_steps)
    \/ Has(run[c].outputs.actual_steps)

\* The result collection a finished call returned
Returned(c) == Get(returned[c]).results

Keys(rs) == [i \in 1 .. Len(rs) |-> rs[i].key]

\* The actual tool sequence as the property states it: the tools of the
\* intermediate steps' actions, else the run's actual_steps
ActualOf(c) ==
    LET ro == run[c].outputs
    IN  IF Has(ro.intermediate_steps)
        THEN [i \in 1 .. Len(Get(ro.intermediate_steps)) |->
                 Get(ro.intermediate_steps)[i][1].tool]
        ELSE Get(ro.actual_steps)

ExpectedOf(c) == Get(example[c].outputs.expected_steps)

\* order_matters is true or absent from the example outputs
OrderedMode(c) ==
    \/ ~ Has(example[c].outputs.order_matters)
    \/ example[c].outputs.order_matters = Some(TRUE)

Occurrences(s, t) == Cardinality({i \in 1 .. Len(s) : s[i] = t})

SameMultiset(s, t) ==
    \A x \in Tools \cup {"z"} : Occurrences(s, x) = Occurrences(t, x)

\* Nothing of the result exists: no score was computed, no list built,
\* nothing returned, the judge not asked
NothingComputed(c) ==
    /\ trajectory_score[c] = Absent
    /\ step_fraction[c] = Absent
    /\ results[c] = << >>
    /\ returned[c] = Absent
    /\ judge_calls[c] = << >>

(***************************************************************************)
(* C1.  A returned "Intermediate steps correctness" score is 1 exactly     *)
(* when (order_matters is true or absent and the actual and expected tool  *)
(* sequences are equal) or (order_matters is false and they hold the same  *)
(* tools with the same multiplicities), and 0 otherwise.                   *)
(***************************************************************************)
C1_TrajectoryCorrectness ==
    \A c \in Calls :
        Done(c) =>
            LET A == ActualOf(c)
                E == ExpectedOf(c)
                r == Returned(c)[1]
            IN  /\ r.key = "Intermediate steps correctness"
                /\ r.score =
                     IF \/ OrderedMode(c) /\ A = E
                        \/ ~ OrderedMode(c) /\ SameMultiset(A, E)
                     THEN 1 ELSE 0

\* A permutation that is not the expected sequence scores 1 with
\* order_matters = false
C1_Witness ==
    \E c \in Calls :
        /\ Done(c)
        /\ ~ OrderedMode(c)
        /\ Len(ActualOf(c)) = MaxSteps
        /\ ActualOf(c) # ExpectedOf(c)
        /\ Returned(c)[1].score = 1

(***************************************************************************)
(* C2.  A returned "# steps / # expected steps" score equals N / M for N   *)
(* actual and M >= 1 expected steps: not clamped (above 1 when N > M),     *)
(* whatever order_matters and the trajectory score are, no smaller with    *)
(* one more actual step and no larger with one more expected step.         *)
(***************************************************************************)
FractionLeq(f, g) == f.num * g.den <= g.num * f.den

C2_StepRatio ==
    \A c \in Calls :
        Done(c) =>
            LET N == Len(ActualOf(c))
                M == Len(ExpectedOf(c))
                r == Returned(c)[2]
            IN  /\ r.key = "# steps / # expected steps"
                /\ M >= 1
                /\ r.score.den > 0
                /\ r.score.num * M = N * r.score.den
                /\ (N > M) = (r.score.num > r.score.den)
                /\ FractionLeq(r.score, StepFraction(N + 1, M))
                /\ FractionLeq(StepFraction(N, M + 1), r.score)

\* More steps than expected, a failed trajectory: the ratio is above 1
C2_Witness ==
    \E c \in Calls :
        /\ Done(c)
        /\ Len(ActualOf(c)) = MaxSteps
        /\ Len(ExpectedOf(c)) = 2
        /\ Returned(c)[1].score = 0
        /\ Returned(c)[2].score.num > Returned(c)[2].score.den

(***************************************************************************)
(* C3.  A returned collection holds, in this order: "Intermediate steps    *)
(* correctness" with the resolved order_matters as comment, "# steps / #   *)
(* expected steps", "Correct Final State" iff run and example outputs both *)
(* carry "state" (1 iff the states are equal), and "correctness" iff the   *)
(* run outputs carry "output" and the evaluator has a judge (never in mode *)
(* "none").                                                                *)
(***************************************************************************)
C3_ResultKeys ==
    \A c \in Calls :
        Done(c) =>
            LET ro == run[c].outputs
                eo == example[c].outputs
                both_states == Has(ro.state) /\ Has(eo.state)
                judged == Has(ro.output) /\ evaluator.qa_evaluator # NoJudge
                rs == Returned(c)
            IN  /\ Keys(rs) =
                       << "Intermediate steps correctness",
                          "# steps / # expected steps" >>
                       \o (IF both_states THEN << "Correct Final State" >>
                           ELSE << >>)
                       \o (IF judged THEN << "correctness" >> ELSE << >>)
                /\ rs[1].comment =
                       (IF OrderedMode(c) THEN "Order matters=True"
                        ELSE "Order matters=False")
                /\ both_states =>
                       rs[3].score = (IF ro.state = eo.state THEN 1 ELSE 0)
                /\ evaluator.output_evaluation = "none" => ~ judged

\* All four results are returned
C3_Witness ==
    \E c \in Calls :
        /\ Done(c)
        /\ Len(Returned(c)) = 4
        /\ Returned(c)[3].score = 1
        /\ Returned(c)[4].key = "correctness"

(***************************************************************************)
(* C4.  With the QAMathEvaluator judge the "correctness" score is 1        *)
(* exactly when the model's reply begins with CORRECT and 0 for every      *)
(* other reply (empty, with a preamble, INCORRECT, lower case); no reply   *)
(* makes the call raise.                                                   *)
(***************************************************************************)
BeginsWithCorrect(reply) ==
    /\ Len(reply) >= 7
    /\ SubSeq(reply, 1, 7) = << "C", "O", "R", "R", "E", "C", "T" >>

C4_VerdictParsing ==
    \A c \in Calls :
        /\ qa_evaluator[c].kind = "QAMathEvaluator" /\ judge_calls[c] # << >>
               => pc[c] \in {"return", "done"}
        /\ Done(c) /\ qa_evaluator[c].kind = "QAMathEvaluator"
           /\ judge_calls[c] # << >>
               => LET r == Returned(c)[Len(Returned(c))]
                  IN  /\ r.key = "correctness"
                      /\ r.score \in {0, 1}
                      /\ (r.score = 1) = BeginsWithCorrect(stub[c].reply)

\* "INCORRECT..." is scored 0
C4_Witness ==
    \E c \in Calls :
        /\ Done(c)
        /\ qa_evaluator[c].kind = "QAMathEvaluator"
        /\ judge_calls[c] # << >>
        /\ Len(stub[c].reply) > 9
        /\ SubSeq(stub[c].reply, 1, 2) = << "I", "N" >>
        /\ Returned(c)[Len(Returned(c))].score = 0

(***************************************************************************)
(* C5.  A call whose run outputs hold neither "intermediate_steps" nor     *)
(* "actual_steps" ends with InvalidRunOutput, through evaluate_run and     *)
(* through compare_outputs, whatever else the outputs hold; it never gets  *)
(* past the extraction: no score is computed, nothing is returned, the     *)
(* judge is not asked.                                                     *)
(***************************************************************************)
C5_InvalidRunOutput ==
    \A c \in Calls :
        HasDicts(c) /\ ~ HasStepField(c) /\ entry[c] # "idle" =>
            /\ pc[c] \in {"ready", "extract", "raised"}
            /\ Failing(c) => raised[c] = InvalidRunOutput
            /\ NothingComputed(c)

\* compare_outputs called directly raised it, the example lacking
\* expected_steps as well
C5_Witness ==
    \E c \in Calls :
        /\ entry[c] = "compare_outputs"
        /\ HasDicts(c) /\ ~ HasStepField(c)
        /\ ~ Has(example[c].outputs.expected_steps)
        /\ Failing(c)
        /\ raised[c] = InvalidRunOutput

(***************************************************************************)
(* C6, as stated.  A call whose example outputs lack "expected_steps",     *)
(* the run outputs being valid, ends with the MissingExpectedSteps         *)
(* validation error through evaluate_run and through compare_outputs.      *)
(***************************************************************************)
C6_MissingExpectedStepsEveryEntry ==
    \A c \in Calls :
        /\ HasDicts(c) /\ HasStepField(c)
        /\ ~ Has(example[c].outputs.expected_steps)
        /\ Finished(c)
        => raised[c] = MissingExpectedSteps

(***************************************************************************)
(* C6, amended.  A call whose example outputs lack "expected_steps", the   *)
(* run outputs holding a step field, ends with the MissingExpectedSteps    *)
(* ValueError through evaluate_run, and with KeyError('expected_steps')    *)
(* from the lookup of line 93 through compare_outputs called directly; in  *)
(* both no score is computed, nothing is returned, the judge is not asked. *)
(***************************************************************************)
C6_MissingExpectedSteps ==
    \A c \in Calls :
        /\ HasDicts(c) /\ HasStepField(c)
        /\ ~ Has(example[c].outputs.expected_steps)
        /\ entry[c] # "idle"
        => /\ pc[c] \in {"ready", "extract", "expected", "raised"}
           /\ Failing(c) =>
                 raised[c] = (IF entry[c] = "evaluate_run"
                              THEN MissingExpectedSteps
                              ELSE KeyError("expected_steps"))
           /\ entry[c] = "evaluate_run" => pc[c] \in {"ready", "raised"}
           /\ NothingComputed(c)

\* evaluate_run raised it on valid run outputs
C6_Witness ==
    \E c \in Calls :
        /\ entry[c] = "evaluate_run"
        /\ HasDicts(c) /\ HasStepField(c)
        /\ Has(run[c].outputs.output)
        /\ ~ Has(example[c].outputs.expected_steps)
        /\ raised[c] = MissingExpectedSteps

(***************************************************************************)
(* C7, as stated.  With expected_steps present and empty the call fails    *)
(* by a check made before the trajectory score and the ratio are computed, *)
(* never by a division by zero.                                            *)
(***************************************************************************)
C7_EmptyExpectedStepsGuarded ==
    \A c \in Calls :
        /\ HasDicts(c) /\ HasStepField(c)
        /\ example[c].outputs.expected_steps = Some(<< >>)
        /\ Finished(c)
        => /\ Failing(c)
           /\ raised[c].type # "ZeroDivisionError"
           /\ trajectory_score[c] = Absent

(***************************************************************************)
(* C8, as stated.  When the run outputs carry "output", the evaluator has  *)
(* a judge and the example outputs carry no "reference", the call fails    *)
(* before the trajectory, ratio and state results are computed.            *)
(***************************************************************************)
C8_MissingReferenceFirst ==
    \A c \in Calls :
        /\ HasDicts(c) /\ HasStepField(c)
        /\ Has(example[c].outputs.expected_steps)
        /\ example[c].outputs.expected_steps # Some(<< >>)
        /\ Has(run[c].outputs.output)
        /\ qa_evaluator[c] # NoJudge
        /\ ~ Has(example[c].outputs.reference)
        /\ Finished(c)
        => /\ Failing(c)
           /\ trajectory_score[c] = Absent
           /\ step_fraction[c] = Absent
           /\ results[c] = << >>

(***************************************************************************)
(* C9.  The constructor raises ConflictingJudgeConfig for mode "none" with *)
(* a model handle, and rejects a mode outside qa, qa_math, none,           *)
(* qa_math_without_question whatever the handle; then there is no          *)
(* evaluator and no evaluate_run.  Every other combination constructs an   *)
(* evaluator that keeps the mode, without a judge exactly in mode "none".  *)
(***************************************************************************)
EnumeratedModes == {"qa", "qa_math", "none", "qa_math_without_question"}

C9_Construction ==
    LET mode == ctor_args.output_evaluation
        llm  == ctor_args.eval_llm
    IN  evaluator.status # "new" =>
          /\ mode = "none" /\ llm # "None" =>
                /\ evaluator.status = "raised"
                /\ evaluator.error = ConflictingJudgeConfig
          /\ mode \notin EnumeratedModes =>
                /\ evaluator.status = "raised"
                /\ evaluator.error.type = "ValueError"
                /\ evaluator.error.arg = mode
          /\ mode \in EnumeratedModes /\ ~ (mode = "none" /\ llm # "None") =>
                /\ evaluator.status = "constructed"
                /\ evaluator.output_evaluation = mode
                /\ (mode = "none") = (evaluator.qa_evaluator = NoJudge)
          /\ evaluator.status = "raised" =>
                \A c \in Calls :
                    entry[c] = "evaluate_run" => pc[c] = "ready"

\* Mode "none" with a model handle was refused
C9_Witness ==
    /\ ctor_args = CtorArgs("stub_llm", "none")
    /\ evaluator.status = "raised"
    /\ evaluator.error = ConflictingJudgeConfig

(***************************************************************************)
(* C10.  With several calls in flight on one evaluator, every finished     *)
(* call has returned or raised exactly what its own run and example give   *)
(* when evaluated alone, and the evaluator's fields are those the          *)
(* constructor set.                                                        *)
(***************************************************************************)
AloneResult(c) ==
    IF entry[c] = "evaluate_run"
    THEN EvaluateRunResult(evaluator, run[c], example[c], stub[c])
    ELSE CompareOutputs(run[c].outputs, example[c].outputs, run[c].inputs,
                        evaluator.qa_evaluator, stub[c])

C10_Reentrant ==
    /\ evaluator.status # "new" =>
           evaluator = NewEvaluator(ctor_args.eval_llm,
                                    ctor_args.output_evaluation)
    /\ \A c \in Calls :
           Finished(c) =>
               [raised |-> raised[c], returned |-> returned[c],
                judge_calls |-> judge_calls[c]] = AloneResult(c)

\* One call has returned three results or more while another is between
\* building its list and returning it
C10_Witness ==
    \E c, d \in Calls :
        /\ c # d
        /\ Done(c)
        /\ Len(Returned(c)) >= 3
        /\ pc[d] \in {"state", "judge", "return"}
        /\ results[d] # << >>

=============================================================================
